---------------------------- MODULE Spec2Model ----------------------------
(***************************************************************************)
(* State machine of the daily-reflection journal (src/js/state.js,         *)
(* src/js/app.js and the prompt list of src/unnamed/part_000).             *)
(*                                                                         *)
(* Encoding.  A calendar date "YYYY-MM-DD" is its day number (an integer): *)
(* the zero-padded ISO strings sort like the day numbers, and              *)
(* new Date("YYYY-MM-DD") is UTC midnight, so the millisecond difference   *)
(* of two dates divided by 86400000 is exactly the difference of the day   *)
(* numbers.  null dates are NoDate.  A text is the sequence of its         *)
(* characters.  A JSON document is a record; the keys reflections and      *)
(* streak carry a tag saying whether the key holds an object, holds a      *)
(* falsy value or is missing.  The lastEdited timestamp of a record is     *)
(* not modelled: no decision of the program reads it.  A record without a  *)
(* text key is a record without the text field.                            *)
(***************************************************************************)
EXTENDS Integers, Sequences, FiniteSets, TLC

VARIABLES
    today,          \* getTodayDate(): the clock's calendar date
    store,          \* localStorage[STORAGE_KEY]
    appState,       \* app.js: let appState
    autoSaveTimer,  \* app.js: let autoSaveTimer: the handle of the timeout
                    \* armed last; armed while that timeout is pending
    timers,         \* the page's pending saveReflection timeouts: the texts
                    \* their callbacks carry, in the order they were armed
    page,           \* "loading": script not yet run; "ready": initApp done;
                    \* "reloading": location.reload() called, old page alive;
                    \* "crashed": initApp raised an exception
    panel,          \* what the history panel was last given to show
    stats,          \* the statistics the page displays
    theme,          \* localStorage["theme"], the system's colour scheme and
                    \* the theme applied to the document
    last,           \* the last handler that ran, its input and its results
    cursorChangedOn, \* observer: the date of the latest change of the cursor
    storeReplaced,  \* observer: the stored value was last written by
                    \* importData or clearAllData, not by the Ledger
    startupDates    \* observer: the dates on which initApp has run

vars ==
    <<today, store, appState, autoSaveTimer, timers, page, panel, stats,
      theme, last, cursorChangedOn, storeReplaced, startupDates>>

---------------------------------------------------------------------------
(* Bounds of the model *)

MaxDay == 1         \* the clock runs over the dates 0..MaxDay
MaxDate == 4        \* calculator inputs: reflection dates 0..MaxDate
MaxPrevLongest == 3 \* calculator inputs: previous longest 0..MaxPrevLongest
MaxLedgerDate == 1  \* ledger inputs: records on the dates 0..MaxLedgerDate
MaxRotationDay == 14 \* rotation: startups on the dates 0..MaxRotationDay
MaxTextLen == 4     \* word counter inputs: texts of up to MaxTextLen characters

---------------------------------------------------------------------------
(* Values *)

NoDate == 0 - 1

TotalQuestions == 13

QuestionIds == 1..TotalQuestions

EmptyMap == [d \in {} |-> 0]

Max(a, b) == IF a >= b THEN a ELSE b

\* The texts the user types: empty, whitespace only, a word, a padded word.
Texts == {<<>>, <<" ">>, <<"a">>}

IsSpace(c) == c \in {" ", "\n"}

RECURSIVE TrimStart(_)
TrimStart(t) ==
    IF Len(t) > 0 /\ IsSpace(Head(t)) THEN TrimStart(Tail(t)) ELSE t

RECURSIVE TrimEnd(_)
TrimEnd(t) ==
    IF Len(t) > 0 /\ IsSpace(t[Len(t)])
    THEN TrimEnd(SubSeq(t, 1, Len(t) - 1))
    ELSE t

\* String.prototype.trim
Trim(t) == TrimEnd(TrimStart(t))

ZeroStreak == [current |-> 0, longest |-> 0, lastReflectionDate |-> NoDate]

DEFAULT_STATE ==
    [currentQuestionId |-> 1,
     lastQuestionDate  |-> NoDate,
     reflections       |-> EmptyMap,
     streak            |-> ZeroStreak,
     reflectionsKey    |-> "object",
     streakKey         |-> "object"]

\* The value under STORAGE_KEY: nothing, text that is not JSON, the JSON
\* text null, or a JSON object.
AbsentStore == [kind |-> "absent", doc |-> DEFAULT_STATE]

NotJsonText == [kind |-> "notjson", doc |-> DEFAULT_STATE]

NullJsonText == [kind |-> "null", doc |-> DEFAULT_STATE]

\* JSON.stringify of a state: ints, strings, null and plain objects survive
\* the conversion, so the text is identified with the document it denotes.
JSONStringify(state) == [kind |-> "json", doc |-> state]

\* JSON.stringify(state, null, 2): the indented text of the same document.
JSONStringifyPretty(state) == [kind |-> "pretty", doc |-> state]

\* JSON.parse: throws on text that is not JSON; the text null parses to null.
JSONParse(text) ==
    [threw  |-> text.kind \notin {"json", "pretty", "null"},
     isNull |-> text.kind = "null",
     value  |-> text.doc]

---------------------------------------------------------------------------
(* questions *)

\* Questions.find((q) => q.id === id) || null; <<>> is null.
GetQuestionById(id) == IF id \in QuestionIds THEN <<id>> ELSE <<>>

GetNextQuestionId_NoWrap(currentId) == currentId + 1

GetNextQuestionId_WrapEarly(currentId) ==
    IF currentId >= TotalQuestions - 1 THEN 1 ELSE currentId + 1

GetNextQuestionId(currentId) ==
    IF currentId >= TotalQuestions THEN 1 ELSE currentId + 1

---------------------------------------------------------------------------
(* Store *)

\* The body of loadState's try block (state.js 25-39): what it returns,
\* whether an exception leaves it, and the stored value after it (it only
\* reads: getItem).
LoadStateTry(saved) ==
    IF saved.kind = "absent"
    THEN [threw |-> FALSE, value |-> DEFAULT_STATE, store |-> saved]
    ELSE LET parsed == JSONParse(saved) IN
         IF parsed.threw \/ parsed.isNull
         THEN [threw |-> TRUE, value |-> DEFAULT_STATE, store |-> saved]
         ELSE IF parsed.value.reflectionsKey # "object"
                 \/ parsed.value.streakKey # "object"
              THEN [threw |-> FALSE, value |-> DEFAULT_STATE, store |-> saved]
              ELSE [threw |-> FALSE, value |-> parsed.value, store |-> saved]

LoadState_NoCatch(saved) == LoadStateTry(saved)

\* loadState: the try block and its catch (state.js 40-43).
LoadState(saved) ==
    LET r == LoadStateTry(saved) IN
    IF r.threw
    THEN [threw |-> FALSE, value |-> DEFAULT_STATE, store |-> r.store]
    ELSE r

\* A setItem that fails without throwing.
SetItem_Silent(old, text, ok) ==
    [threw |-> FALSE, store |-> IF ok THEN text ELSE old]

\* localStorage.setItem: throws (quota, storage disabled) when ~ok.
SetItem(old, text, ok) ==
    IF ok THEN [threw |-> FALSE, store |-> text]
          ELSE [threw |-> TRUE, store |-> old]

SaveState_AlwaysTrue(old, state, ok) ==
    [threw |-> FALSE, ret |-> TRUE, store |-> SetItem(old, JSONStringify(state), ok).store]

\* A saveState that writes the state without its streak.
SaveState_WithoutStreak(old, state, ok) ==
    LET w == SetItem(old, JSONStringify([state EXCEPT !.streak = ZeroStreak]),
                     ok) IN
    IF w.threw THEN [threw |-> FALSE, ret |-> FALSE, store |-> w.store]
               ELSE [threw |-> FALSE, ret |-> TRUE, store |-> w.store]

\* saveState (state.js 48-57).
SaveState(old, state, ok) ==
    LET w == SetItem(old, JSONStringify(state), ok) IN
    IF w.threw THEN [threw |-> FALSE, ret |-> FALSE, store |-> w.store]
               ELSE [threw |-> FALSE, ret |-> TRUE, store |-> w.store]

\* exportData (state.js 208-211): the indented text of what loadState
\* returns.
ExportData_Raw(saved) == saved

ExportData(saved) == JSONStringifyPretty(LoadState(saved).value)

ClearAllData_OtherKey(old, ok) == [ret |-> ok, store |-> old]

\* localStorage.removeItem, in clearAllData's try block.
ClearAllData(old, ok) ==
    IF ok THEN [ret |-> TRUE, store |-> AbsentStore]
          ELSE [ret |-> FALSE, store |-> old]

---------------------------------------------------------------------------
(* Streak Calculator *)

\* Math.floor((a - b) / (1000 * 60 * 60 * 24)) of two UTC-midnight dates
DaysDiff(a, b) == a - b

SetMax(S) == CHOOSE x \in S : \A y \in S : y <= x

\* .sort().reverse(): most recent first
RECURSIVE SortDesc(_)
SortDesc(S) ==
    IF S = {} THEN <<>> ELSE <<SetMax(S)>> \o SortDesc(S \ {SetMax(S)})

\* The filter of line 102 reads .text.length of every record: a record
\* without text makes it raise a TypeError.
CalculateStreakThrows(state) ==
    \E d \in DOMAIN state.reflections :
        "text" \notin DOMAIN state.reflections[d]

\* Object.keys(...).filter(text.length > 0)
QualifyingDates(state) ==
    {d \in DOMAIN state.reflections : Len(state.reflections[d].text) > 0}

\* The loop of lines 125-142 without its break (line 139).
RECURSIVE CurrentLoop_NoBreak(_, _, _)
CurrentLoop_NoBreak(dates, i, temp) ==
    IF i > Len(dates) THEN temp
    ELSE IF i = 1 THEN CurrentLoop_NoBreak(dates, 2, 1)
    ELSE IF DaysDiff(dates[i - 1], dates[i]) = 1
         THEN CurrentLoop_NoBreak(dates, i + 1, temp + 1)
         ELSE CurrentLoop_NoBreak(dates, i + 1, temp)

\* The loop of lines 125-142, from index i (1-based) with tempStreak = temp.
RECURSIVE CurrentLoop(_, _, _)
CurrentLoop(dates, i, temp) ==
    IF i > Len(dates) THEN temp
    ELSE IF i = 1 THEN CurrentLoop(dates, 2, 1)
    ELSE IF DaysDiff(dates[i - 1], dates[i]) = 1
         THEN CurrentLoop(dates, i + 1, temp + 1)
         ELSE temp

RECURSIVE LongestLoop_NoFirst(_, _, _, _)
LongestLoop_NoFirst(dates, i, temp, longest) ==
    IF i > Len(dates) THEN longest
    ELSE IF i = 1 THEN LongestLoop_NoFirst(dates, 2, 1, longest)
    ELSE IF DaysDiff(dates[i - 1], dates[i]) = 1
         THEN LongestLoop_NoFirst(dates, i + 1, temp + 1, longest)
         ELSE LongestLoop_NoFirst(dates, i + 1, 1, Max(longest, temp))

\* The loop of lines 148-166 without the reset of line 163.
RECURSIVE LongestLoop_NoReset(_, _, _, _)
LongestLoop_NoReset(dates, i, temp, longest) ==
    IF i > Len(dates) THEN longest
    ELSE IF i = 1 THEN LongestLoop_NoReset(dates, 2, 1, 1)
    ELSE IF DaysDiff(dates[i - 1], dates[i]) = 1
         THEN LongestLoop_NoReset(dates, i + 1, temp + 1,
                                  Max(longest, temp + 1))
         ELSE LongestLoop_NoReset(dates, i + 1, temp, longest)

\* The loop of lines 148-166.
RECURSIVE LongestLoop(_, _, _, _)
LongestLoop(dates, i, temp, longest) ==
    IF i > Len(dates) THEN longest
    ELSE IF i = 1 THEN LongestLoop(dates, 2, 1, 1)
    ELSE IF DaysDiff(dates[i - 1], dates[i]) = 1
         THEN LongestLoop(dates, i + 1, temp + 1, Max(longest, temp + 1))
         ELSE LongestLoop(dates, i + 1, 1, longest)

CalculateStreak(state, now) ==
    LET dates == SortDesc(QualifyingDates(state)) IN
    IF Len(dates) = 0 THEN ZeroStreak
    ELSE [current |-> IF DaysDiff(now, dates[1]) <= 1
                      THEN CurrentLoop(dates, 1, 0)
                      ELSE 0,
          longest |-> Max(LongestLoop(dates, 1, 1, 0), state.streak.longest),
          lastReflectionDate |-> dates[1]]

---------------------------------------------------------------------------
(* Question Rotator *)

UpdateQuestionIfNeeded_Always(state, now) ==
    [state |-> [state EXCEPT
                   !.currentQuestionId =
                       GetNextQuestionId(state.currentQuestionId),
                   !.lastQuestionDate = now],
     saved |-> TRUE]

UpdateQuestionIfNeeded_NoStamp(state, now) ==
    IF state.lastQuestionDate # now
    THEN [state |-> [state EXCEPT
                       !.currentQuestionId =
                           GetNextQuestionId(state.currentQuestionId)],
          saved |-> TRUE]
    ELSE [state |-> state, saved |-> FALSE]

\* Returns the state and whether saveState(newState) was called.
UpdateQuestionIfNeeded(state, now) ==
    IF state.lastQuestionDate # now
    THEN [state |-> [state EXCEPT
                       !.currentQuestionId =
                           GetNextQuestionId(state.currentQuestionId),
                       !.lastQuestionDate = now],
          saved |-> TRUE]
    ELSE [state |-> state, saved |-> FALSE]

---------------------------------------------------------------------------
(* Reflection Ledger *)

GetTodayReflection(state, now) ==
    IF now \in DOMAIN state.reflections
    THEN state.reflections[now].text
    ELSE <<>>

Upsert(m, d, r) == [x \in DOMAIN m \cup {d} |-> IF x = d THEN r ELSE m[x]]

SaveTodayReflection_KeepQuestion(state, text, now) ==
    LET newState ==
            [state EXCEPT !.reflections =
                Upsert(state.reflections, now,
                       [questionId |->
                            IF now \in DOMAIN state.reflections
                            THEN state.reflections[now].questionId
                            ELSE state.currentQuestionId,
                        text |-> text])]
        hadReflectionToday ==
            /\ now \in DOMAIN state.reflections
            /\ Len(state.reflections[now].text) > 0
        hasReflectionNow == Len(text) > 0
    IN  IF ~hadReflectionToday /\ hasReflectionNow
        THEN [newState EXCEPT !.streak = CalculateStreak(newState, now)]
        ELSE newState

SaveTodayReflection_NeverRecompute(state, text, now) ==
    [state EXCEPT !.reflections =
        Upsert(state.reflections, now,
               [questionId |-> state.currentQuestionId, text |-> text])]

SaveTodayReflection_AlwaysRecompute(state, text, now) ==
    LET newState ==
            [state EXCEPT !.reflections =
                Upsert(state.reflections, now,
                       [questionId |-> state.currentQuestionId,
                        text |-> text])]
    IN  [newState EXCEPT !.streak = CalculateStreak(newState, now)]

\* The state saveTodayReflection returns; it always calls saveState on it.
SaveTodayReflection(state, text, now) ==
    LET newState ==
            [state EXCEPT !.reflections =
                Upsert(state.reflections, now,
                       [questionId |-> state.currentQuestionId,
                        text |-> text])]
        hadReflectionToday ==
            /\ now \in DOMAIN state.reflections
            /\ Len(state.reflections[now].text) > 0
        hasReflectionNow == Len(text) > 0
    IN  IF ~hadReflectionToday /\ hasReflectionNow
        THEN [newState EXCEPT !.streak = CalculateStreak(newState, now)]
        ELSE newState

---------------------------------------------------------------------------
(* Transfer *)

ImportData_SaveFirst(old, jsonString, ok) ==
    LET data == JSONParse(jsonString)
        w == SaveState(old, data.value, ok)
    IN  IF data.threw \/ data.isNull
        THEN [ret |-> FALSE, store |-> old, saves |-> <<>>]
        ELSE IF data.value.reflectionsKey # "object"
                \/ data.value.streakKey # "object"
             THEN [ret |-> FALSE, store |-> w.store, saves |-> <<>>]
             ELSE [ret |-> TRUE, store |-> w.store, saves |-> <<w.ret>>]

ImportData_KeysOnly(old, jsonString, ok) ==
    LET data == JSONParse(jsonString) IN
    IF data.threw \/ data.isNull
    THEN [ret |-> FALSE, store |-> old, saves |-> <<>>]
    ELSE IF data.value.reflectionsKey = "missing"
            \/ data.value.streakKey = "missing"
         THEN [ret |-> FALSE, store |-> old, saves |-> <<>>]
         ELSE LET w == SaveState(old, data.value, ok) IN
              [ret |-> TRUE, store |-> w.store, saves |-> <<w.ret>>]

\* importData: the result and the store after it.  The boolean saveState
\* returns is dropped (line 225).
ImportData(old, jsonString, ok) ==
    LET data == JSONParse(jsonString) IN
    IF data.threw \/ data.isNull
    THEN [ret |-> FALSE, store |-> old, saves |-> <<>>]
    ELSE IF data.value.reflectionsKey # "object"
            \/ data.value.streakKey # "object"
         THEN [ret |-> FALSE, store |-> old, saves |-> <<>>]
         ELSE LET w == SaveState(old, data.value, ok) IN
              [ret |-> TRUE, store |-> w.store, saves |-> <<w.ret>>]

---------------------------------------------------------------------------
(* History *)

\* question ? question.text : "Question not found"; the prompt's text is
\* identified with the prompt's id.
QuestionText(questionId) ==
    IF GetQuestionById(questionId) # <<>>
    THEN [label |-> "prompt", id |-> GetQuestionById(questionId)[1]]
    ELSE [label |-> "Question not found", id |-> 0]

\* reflection.text && reflection.text.trim().length > 0
HasText_NoTrim(reflection) ==
    "text" \in DOMAIN reflection /\ Len(reflection.text) > 0

HasText(reflection) ==
    "text" \in DOMAIN reflection /\ Len(Trim(reflection.text)) > 0

\* getAllReflections (app.js 261-285): the entries of the records with
\* text, sorted by b.date.localeCompare(a.date).  The dates are distinct
\* keys, so the order of the for-in loop does not show in the result.
GetAllReflections(state) ==
    LET dates == SortDesc({d \in DOMAIN state.reflections :
                              HasText(state.reflections[d])})
    IN  [i \in 1..Len(dates) |->
            [date |-> dates[i],
             questionText |->
                 QuestionText(state.reflections[dates[i]].questionId),
             reflectionText |-> state.reflections[dates[i]].text]]

---------------------------------------------------------------------------
(* Statistics Engine *)

\* .replace(/\s+/g, " "): every run of whitespace becomes one space.
ReplaceWhitespaceRuns_Forgotten(t) == t

RECURSIVE ReplaceWhitespaceRuns(_)
ReplaceWhitespaceRuns(t) ==
    IF Len(t) = 0 THEN <<>>
    ELSE IF IsSpace(Head(t))
         THEN <<" ">> \o ReplaceWhitespaceRuns(TrimStart(Tail(t)))
         ELSE <<Head(t)>> \o ReplaceWhitespaceRuns(Tail(t))

\* .split(" "): the pieces between the spaces, empty pieces included.
RECURSIVE Split(_)
Split(t) ==
    IF \A i \in 1..Len(t) : t[i] # " " THEN <<t>>
    ELSE LET i == CHOOSE k \in 1..Len(t) :
                      t[k] = " " /\ \A j \in 1..(k - 1) : t[j] # " "
         IN  <<SubSeq(t, 1, i - 1)>> \o Split(SubSeq(t, i + 1, Len(t)))

IsWord(word) == Len(word) > 0

\* countWords (state.js 323-337)
CountWords(text) ==
    IF Len(text) = 0 \/ Len(Trim(text)) = 0 THEN 0
    ELSE Len(SelectSeq(Split(ReplaceWhitespaceRuns(Trim(text))), IsWord))

RECURSIVE TotalWords(_, _)
TotalWords(state, dates) ==
    IF dates = {} THEN 0
    ELSE LET d == CHOOSE x \in dates : TRUE IN
         CountWords(state.reflections[d].text)
             + TotalWords(state, dates \ {d})

\* Math.round of total / n, for n > 0: halves go up.
RoundedAverage(total, n) == (2 * total + n) \div (2 * n)

\* calculateStats (state.js 274-315)
CalculateStats(state, now) ==
    LET dates == {d \in DOMAIN state.reflections :
                     HasText(state.reflections[d])}
        wordCounts == {CountWords(state.reflections[d].text) : d \in dates}
    IN  IF dates = {}
        THEN [totalReflections |-> 0, totalWords |-> 0, averageWords |-> 0,
              longestReflection |-> 0, shortestReflection |-> 0,
              currentWords |-> 0]
        ELSE [totalReflections |-> Cardinality(dates),
              totalWords |-> TotalWords(state, dates),
              averageWords |->
                  RoundedAverage(TotalWords(state, dates), Cardinality(dates)),
              longestReflection |-> SetMax(wordCounts),
              shortestReflection |->
                  CHOOSE x \in wordCounts : \A y \in wordCounts : x <= y,
              currentWords |-> CountWords(GetTodayReflection(state, now))]

\* getStreakStats (state.js 344-374); the dates sorted ascending.
GetStreakStats(state) ==
    LET dates == QualifyingDates(state) IN
    IF dates = {}
    THEN [totalDays |-> 0, firstReflectionDate |-> NoDate,
          lastReflectionDate |-> NoDate, daysSinceFirst |-> 0]
    ELSE LET firstDate == CHOOSE x \in dates : \A y \in dates : x <= y
             lastDate == SetMax(dates)
         IN  [totalDays |-> Cardinality(dates),
              firstReflectionDate |-> firstDate,
              lastReflectionDate |-> lastDate,
              daysSinceFirst |-> DaysDiff(lastDate, firstDate)]

\* Nothing displayed yet.
NoStats ==
    [stats |-> CalculateStats(DEFAULT_STATE, NoDate),
     streakStats |-> GetStreakStats(DEFAULT_STATE)]

\* updateStatsDisplay (app.js 372-381)
UpdateStatsDisplay(state, now) ==
    [stats |-> CalculateStats(state, now),
     streakStats |-> GetStreakStats(state)]

\* updateLiveWordCount (app.js 480-489): the current word count alone.
UpdateLiveWordCount(shown, text) ==
    [shown EXCEPT !.stats.currentWords = CountWords(text)]

---------------------------------------------------------------------------
(* Theme *)

NoTheme == [saved |-> "absent", system |-> "light", applied |-> "none"]

\* getSavedTheme (state.js 236-242): localStorage.getItem("theme") || "light"
GetSavedTheme(saved) == IF saved \in {"absent", ""} THEN "light" ELSE saved

\* getSystemTheme (state.js 260-268)
GetSystemTheme(system) == IF system = "dark" THEN "dark" ELSE "light"

\* initTheme (app.js 319-335): savedTheme || getSystemTheme(), applied.
InitTheme(t) ==
    LET savedTheme == GetSavedTheme(t.saved) IN
    [t EXCEPT !.applied = IF savedTheme # "" THEN savedTheme
                          ELSE GetSystemTheme(t.system)]

---------------------------------------------------------------------------
(* Inputs of the model *)

Days == 0..MaxDay

Record(q, t) == [questionId |-> q, text |-> t]

\* An exported document of an earlier installation.
DocExported ==
    [DEFAULT_STATE EXCEPT
        !.currentQuestionId = TotalQuestions,
        !.lastQuestionDate = 0,
        !.reflections = Upsert(EmptyMap, 0, Record(TotalQuestions, <<"a">>)),
        !.streak = [current |-> 1, longest |-> 5, lastReflectionDate |-> 0]]

\* A document whose cursor names no prompt of this installation.
DocForeign ==
    [DEFAULT_STATE EXCEPT
        !.currentQuestionId = TotalQuestions + 1,
        !.lastQuestionDate = 1]

DocNoStreak == [DocExported EXCEPT !.streakKey = "missing"]

DocNoReflections ==
    [DocExported EXCEPT !.reflectionsKey = "missing",
                        !.reflections = EmptyMap]

\* What the storage can hold before the program first runs.
InitialStores ==
    {AbsentStore, NotJsonText, NullJsonText,
     JSONStringify(DocNoStreak), JSONStringify(DocNoReflections)}

\* The texts handed to importData.
ImportTexts ==
    {NotJsonText, NullJsonText,
     JSONStringify(DocNoStreak), JSONStringify(DocNoReflections),
     JSONStringify(DocExported), JSONStringify(DocForeign)}

NoTimer == [armed |-> FALSE, text |-> <<>>]

NoPanel == [shown |-> FALSE, reflections |-> <<>>]

\* clearTimeout(handle): cancels the handle's timeout if it is still
\* pending (it is the one armed last); a null or stale handle does nothing.
ClearTimeout_Forgotten(pending, handle) == pending

ClearTimeout(pending, handle) ==
    IF handle.armed /\ Len(pending) > 0
    THEN SubSeq(pending, 1, Len(pending) - 1)
    ELSE pending

\* setTimeout(() => saveReflection(text), AUTO_SAVE_DELAY)
SetTimeout(pending, text) == Append(pending, text)

\* The pending timeouts without the i-th, which has fired.
Fired(pending, i) ==
    SubSeq(pending, 1, i - 1) \o SubSeq(pending, i + 1, Len(pending))

Last(op, text, input, ret, saves, isNewDay, streak) ==
    [op |-> op, text |-> text, input |-> input, ret |-> ret,
     saves |-> saves, isNewDay |-> isNewDay, streak |-> streak]

\* The cursor the program works with: the one in memory, or, before the
\* script has run, the one loadState would return.
Cursor ==
    IF page = "loading"
    THEN LoadState(store).value.currentQuestionId
    ELSE appState.currentQuestionId

---------------------------------------------------------------------------
(* The program *)

Init ==
    /\ today = 0
    /\ store \in InitialStores
    /\ appState = DEFAULT_STATE
    /\ autoSaveTimer = NoTimer
    /\ timers = <<>>
    /\ panel = NoPanel
    /\ stats = NoStats
    /\ theme = NoTheme
    /\ page = "loading"
    /\ last = Last("none", <<>>, AbsentStore, TRUE, <<>>, FALSE, ZeroStreak)
    /\ cursorChangedOn = NoDate
    /\ storeReplaced = FALSE
    /\ startupDates = {}

\* initApp (app.js 18-63), run when the page is opened or reloaded, its
\* store writes succeeding or not as oks allows.  A new
\* page has no timers of the old one.  When calculateStreak raises (line
\* 35) the handler ends there: appState is the Rotator's result, the
\* Rotator's write stands, and setupEventListeners (line 56) never runs.
InitAppWith(oks) ==
    \E ok1, ok2 \in oks :
        LET l == LoadState(store)
            loaded == l.value
            u == UpdateQuestionIfNeeded(loaded, today)
            w1 == IF u.saved THEN SaveState(l.store, u.state, ok1)
                             ELSE [ret |-> TRUE, store |-> l.store]
            threw == CalculateStreakThrows(u.state)
            final == IF threw THEN u.state
                     ELSE [u.state EXCEPT
                             !.streak = CalculateStreak(u.state, today)]
            w2 == IF threw THEN [ret |-> FALSE, store |-> w1.store]
                           ELSE SaveState(w1.store, final, ok2)
        IN  /\ (~u.saved => ok1 = (TRUE \in oks))
            /\ (threw => ok2 = (TRUE \in oks))
            /\ appState' = final
            /\ store' = w2.store
            /\ autoSaveTimer' = NoTimer
            /\ timers' = <<>>
            /\ panel' = NoPanel
            /\ stats' = IF threw THEN NoStats
                         ELSE UpdateStatsDisplay(final, today)
            /\ theme' = InitTheme(theme)
            /\ page' = IF threw THEN "crashed" ELSE "ready"
            /\ last' = Last("initApp", <<>>, AbsentStore, ~threw,
                            (IF u.saved THEN <<w1.ret>> ELSE <<>>)
                                \o (IF threw THEN <<>> ELSE <<w2.ret>>),
                            loaded.currentQuestionId
                                # final.currentQuestionId,
                            final.streak)
            /\ cursorChangedOn' =
                   IF final.currentQuestionId # Cursor
                   THEN today ELSE cursorChangedOn
            /\ storeReplaced' =
                   (storeReplaced /\ ~(u.saved /\ w1.ret) /\ ~w2.ret)
            /\ startupDates' = startupDates \cup {today}
            /\ UNCHANGED today

InitApp == InitAppWith(BOOLEAN)

\* handleReflectionInput (app.js 121-139): show the word count of the
\* textarea's text (updateLiveWordCount), cancel the pending timer, arm a
\* new one carrying the textarea's text; last.ret tells whether nothing was
\* pending.  (No typing is modelled between location.reload() and the
\* unload; a timer armed before it may still fire.)
HandleReflectionInputFrom(texts) ==
    /\ page = "ready"
    /\ \E text \in texts :
        /\ stats' = UpdateLiveWordCount(stats, text)
        /\ timers' = SetTimeout(ClearTimeout(timers, autoSaveTimer), text)
        /\ autoSaveTimer' = [armed |-> TRUE, text |-> text]
        /\ last' = Last("handleReflectionInput", text, AbsentStore,
                        timers = <<>>, <<>>, FALSE, appState.streak)
    /\ UNCHANGED <<today, store, appState, page, panel, theme,
                   cursorChangedOn, startupDates, storeReplaced>>

HandleReflectionInput == HandleReflectionInputFrom(Texts)

\* The timer fires: saveReflection(text) (app.js 145-162).
SaveReflection ==
    /\ page \in {"ready", "reloading"}
    /\ \E i \in 1..Len(timers), ok \in BOOLEAN :
        LET text == timers[i]
            new == SaveTodayReflection(appState, text, today)
            w == SaveState(store, new, ok)
        IN  /\ appState' = new
            /\ store' = w.store
            /\ last' = Last("saveReflection", text,
                            AbsentStore, TRUE, <<w.ret>>, FALSE, new.streak)
            /\ storeReplaced' = (storeReplaced /\ ~w.ret)
            /\ stats' = UpdateStatsDisplay(new, today)
            /\ timers' = Fired(timers, i)
            /\ autoSaveTimer' =
                   IF i = Len(timers) THEN NoTimer ELSE autoSaveTimer
    /\ UNCHANGED <<today, page, panel, theme, cursorChangedOn,
                   startupDates>>

\* reader.onload of handleImportData (app.js 214-225), the file holding one
\* of the given texts.  The listener is set at the top level of the script
\* (app.js 99-108), so it is there also when initApp has raised.
HandleImportDataFrom(texts) ==
    /\ page \in {"ready", "crashed"}
    /\ \E jsonString \in texts, ok \in BOOLEAN :
        LET r == ImportData(store, jsonString, ok) IN
        /\ (r.saves = <<>> => ok)
        /\ store' = r.store
        /\ page' = IF r.ret THEN "reloading" ELSE page
        /\ last' = Last("importData", <<>>, jsonString, r.ret, r.saves,
                        FALSE, appState.streak)
        /\ storeReplaced' = (storeReplaced \/ r.saves = <<TRUE>>)
    /\ UNCHANGED <<today, appState, autoSaveTimer, timers, panel, stats,
                   theme, cursorChangedOn, startupDates>>

HandleImportData == HandleImportDataFrom(ImportTexts)

\* handleClearData (app.js 238-253), the user having confirmed.
HandleClearData ==
    /\ page \in {"ready", "crashed"}
    /\ \E ok \in BOOLEAN :
        LET r == ClearAllData(store, ok) IN
        /\ store' = r.store
        /\ page' = IF r.ret THEN "reloading" ELSE page
        /\ last' = Last("clearAllData", <<>>, AbsentStore, r.ret, <<>>,
                        FALSE, appState.streak)
        /\ storeReplaced' = (storeReplaced \/ r.ret)
    /\ UNCHANGED <<today, appState, autoSaveTimer, timers, panel, stats,
                   theme, cursorChangedOn, startupDates>>

\* handleHistoryToggle (app.js 167-173).
HandleHistoryToggle ==
    /\ page = "ready"
    /\ panel' = [shown |-> TRUE, reflections |-> GetAllReflections(appState)]
    /\ last' = Last("handleHistoryToggle", <<>>, AbsentStore, TRUE, <<>>,
                    FALSE, appState.streak)
    /\ UNCHANGED <<today, store, appState, autoSaveTimer, timers, page,
                   stats, theme, cursorChangedOn, startupDates,
                   storeReplaced>>

\* Midnight passes.
DayChangeUpTo(max) ==
    /\ today < max
    /\ today' = today + 1
    /\ last' = Last("dayChange", <<>>, AbsentStore, TRUE, <<>>, FALSE,
                    appState.streak)
    /\ UNCHANGED <<store, appState, autoSaveTimer, timers, page, panel,
                   stats, theme, cursorChangedOn, startupDates,
                   storeReplaced>>

DayChange == DayChangeUpTo(MaxDay)

Next ==
    \/ InitApp
    \/ HandleReflectionInput
    \/ SaveReflection
    \/ HandleImportData
    \/ HandleClearData
    \/ DayChange

Spec == Init /\ [][Next]_vars

---------------------------------------------------------------------------
(* The Streak Calculator on its own: calculateStreak applied once to every *)
(* state whose reflections lie on the dates 0..MaxDate.                    *)

CalcDates == 0..MaxDate

CalcReflections ==
    UNION {[D -> {Record(1, <<>>), Record(1, <<"a">>)}] : D \in SUBSET CalcDates}

CalcStates ==
    {[DEFAULT_STATE EXCEPT !.reflections = m, !.streak.longest = p] :
        m \in CalcReflections, p \in 0..MaxPrevLongest}

InitCalc ==
    /\ today \in 0..(MaxDate + 1)
    /\ appState \in CalcStates
    /\ store = AbsentStore
    /\ autoSaveTimer = NoTimer
    /\ timers = <<>>
    /\ panel = NoPanel
    /\ stats = UpdateStatsDisplay(appState, today)
    /\ theme = NoTheme
    /\ page = "ready"
    /\ last = Last("none", <<>>, AbsentStore, TRUE, <<>>, FALSE, ZeroStreak)
    /\ cursorChangedOn = NoDate
    /\ storeReplaced = FALSE
    /\ startupDates = {}

CalcStep ==
    /\ last.op = "none"
    /\ last' = Last("calculateStreak", <<>>, AbsentStore, TRUE, <<>>, FALSE,
                    CalculateStreak(appState, today))
    /\ UNCHANGED <<today, store, appState, autoSaveTimer, timers, page,
                   panel, stats, theme, cursorChangedOn, startupDates,
                   storeReplaced>>

NextCalc == CalcStep

SpecCalc == InitCalc /\ [][NextCalc]_vars

---------------------------------------------------------------------------
(* Transfer on its own: startup, import, export followed by import of the  *)
(* exported text, and clear, on one date, over stored values and imported  *)
(* documents of every shape.                                               *)

\* Documents whose reflections or streak key holds null, 0, false or "".
DocNullStreak == [DocExported EXCEPT !.streakKey = "falsy"]

DocNullReflections ==
    [DocExported EXCEPT !.reflectionsKey = "falsy",
                        !.reflections = EmptyMap]

\* A document with a record that has no text: {"questionId": 1}.
DocNoText ==
    [DocExported EXCEPT
        !.reflections = Upsert(EmptyMap, 0, [questionId |-> 1])]

TransferStores ==
    InitialStores
        \cup {JSONStringify(DocNullReflections), JSONStringify(DocExported),
              JSONStringify(DocNoText)}

TransferTexts ==
    ImportTexts
        \cup {JSONStringify(DocNullStreak), JSONStringify(DocNullReflections),
              JSONStringify(DocNoText), JSONStringifyPretty(DocExported)}

InitTransfer ==
    /\ today \in Days
    /\ store \in TransferStores
    /\ appState = DEFAULT_STATE
    /\ autoSaveTimer = NoTimer
    /\ timers = <<>>
    /\ panel = NoPanel
    /\ stats = NoStats
    /\ theme = NoTheme
    /\ page = "loading"
    /\ last = Last("none", <<>>, AbsentStore, TRUE, <<>>, FALSE, ZeroStreak)
    /\ cursorChangedOn = NoDate
    /\ storeReplaced = FALSE
    /\ startupDates = {}

TransferImport == HandleImportDataFrom(TransferTexts)

\* handleExportData (app.js 186-205) and then handleImportData of the
\* downloaded file.
ExportImport ==
    /\ page = "ready"
    /\ \E ok \in BOOLEAN :
        LET jsonData == ExportData(store)
            r == ImportData(store, jsonData, ok)
        IN  /\ (r.saves = <<>> => ok)
            /\ store' = r.store
            /\ page' = IF r.ret THEN "reloading" ELSE page
            /\ last' = Last("exportImport", <<>>, jsonData, r.ret, r.saves,
                            FALSE, appState.streak)
            /\ storeReplaced' = (storeReplaced \/ r.saves = <<TRUE>>)
    /\ UNCHANGED <<today, appState, autoSaveTimer, timers, panel, stats,
                   theme, cursorChangedOn, startupDates>>

NextTransfer ==
    \/ InitApp
    \/ TransferImport
    \/ ExportImport
    \/ HandleClearData

SpecTransfer == InitTransfer /\ [][NextTransfer]_vars

---------------------------------------------------------------------------
(* The Ledger and the history on their own: typing, the debounced save and *)
(* the history panel on one date, from every state whose records lie on    *)
(* the dates 0..MaxLedgerDate.                                             *)

LedgerDates == 0..MaxLedgerDate

\* The records of a known prompt, and one of a prompt that no longer exists.
LedgerRecords ==
    {Record(1, t) : t \in Texts} \cup {Record(TotalQuestions + 1, <<"a">>)}

LedgerReflections ==
    UNION {[D -> LedgerRecords] : D \in SUBSET LedgerDates}

\* The snapshots a stored state can carry: none yet, or an older one.
LedgerStreaks ==
    {ZeroStreak, [current |-> 1, longest |-> 3, lastReflectionDate |-> 0]}

LedgerStates ==
    {[DEFAULT_STATE EXCEPT !.currentQuestionId = 2,
                           !.lastQuestionDate = 0,
                           !.reflections = m,
                           !.streak = k] :
        m \in LedgerReflections, k \in LedgerStreaks}

InitLedger ==
    /\ today \in 0..(MaxLedgerDate + 1)
    /\ appState \in LedgerStates
    /\ store = JSONStringify(appState)
    /\ autoSaveTimer = NoTimer
    /\ timers = <<>>
    /\ panel = NoPanel
    /\ stats = UpdateStatsDisplay(appState, today)
    /\ theme = NoTheme
    /\ page = "ready"
    /\ last = Last("none", <<>>, AbsentStore, TRUE, <<>>, FALSE, ZeroStreak)
    /\ cursorChangedOn = NoDate
    /\ storeReplaced = FALSE
    /\ startupDates = {}

NextLedger ==
    \/ HandleReflectionInput
    \/ SaveReflection
    \/ HandleHistoryToggle

SpecLedger == InitLedger /\ [][NextLedger]_vars

---------------------------------------------------------------------------
(* The word counter on its own: the user types texts of spaces, line       *)
(* breaks and letters, and the page shows countWords of each.              *)

WordChars == {" ", "\n", "a"}

WordTexts == UNION {[1..n -> WordChars] : n \in 0..MaxTextLen}

InitWords ==
    /\ today = 0
    /\ appState = [DEFAULT_STATE EXCEPT !.currentQuestionId = 2,
                                        !.lastQuestionDate = 0]
    /\ store = JSONStringify(appState)
    /\ autoSaveTimer = NoTimer
    /\ timers = <<>>
    /\ panel = NoPanel
    /\ stats = UpdateStatsDisplay(appState, today)
    /\ theme = InitTheme(NoTheme)
    /\ page = "ready"
    /\ last = Last("none", <<>>, AbsentStore, TRUE, <<>>, FALSE, ZeroStreak)
    /\ cursorChangedOn = today
    /\ storeReplaced = FALSE
    /\ startupDates = {today}

TypeText == HandleReflectionInputFrom(WordTexts)

NextWords == TypeText

SpecWords == InitWords /\ [][NextWords]_vars

---------------------------------------------------------------------------
(* The theme on its own: startup, the theme toggle and changes of the      *)
(* system's colour scheme, from every saved choice and system preference.  *)

Themes == {"light", "dark"}

OtherTheme(t) == IF t = "light" THEN "dark" ELSE "light"

InitThemeSpec ==
    /\ today \in Days
    /\ store \in InitialStores
    /\ appState = DEFAULT_STATE
    /\ autoSaveTimer = NoTimer
    /\ timers = <<>>
    /\ panel = NoPanel
    /\ stats = NoStats
    /\ theme \in {[NoTheme EXCEPT !.saved = v, !.system = y] :
                      v \in {"absent"} \cup Themes, y \in Themes}
    /\ page = "loading"
    /\ last = Last("none", <<>>, AbsentStore, TRUE, <<>>, FALSE, ZeroStreak)
    /\ cursorChangedOn = NoDate
    /\ storeReplaced = FALSE
    /\ startupDates = {}

\* toggleTheme (app.js 360-367); saveTheme's setItem throws when ~ok
\* (state.js 248-254).
ToggleTheme ==
    /\ page = "ready"
    /\ \E ok \in BOOLEAN :
        LET currentTheme ==
                IF theme.applied = "none" THEN "light" ELSE theme.applied
            newTheme == IF currentTheme = "light" THEN "dark" ELSE "light"
        IN  /\ theme' = [theme EXCEPT
                             !.applied = newTheme,
                             !.saved = IF ok THEN newTheme ELSE theme.saved]
            /\ last' = Last("toggleTheme", <<>>, AbsentStore, ok, <<>>,
                            FALSE, appState.streak)
    /\ UNCHANGED <<today, store, appState, autoSaveTimer, timers, page,
                   panel, stats, cursorChangedOn, startupDates,
                   storeReplaced>>

\* The system's colour scheme changes; the listener initTheme has set
\* (app.js 325-333) follows it while no theme is saved.
SystemThemeChange ==
    /\ theme' =
           [theme EXCEPT
               !.system = OtherTheme(theme.system),
               !.applied = IF page # "loading" /\ theme.saved = "absent"
                           THEN OtherTheme(theme.system)
                           ELSE theme.applied]
    /\ last' = Last("systemThemeChange", <<>>, AbsentStore, TRUE, <<>>,
                    FALSE, appState.streak)
    /\ UNCHANGED <<today, store, appState, autoSaveTimer, timers, page,
                   panel, stats, cursorChangedOn, startupDates,
                   storeReplaced>>

NextTheme ==
    \/ InitApp
    \/ ToggleTheme
    \/ SystemThemeChange

SpecTheme == InitThemeSpec /\ [][NextTheme]_vars

---------------------------------------------------------------------------
(* The rotation over many days: from an empty store the page is opened,    *)
(* any number of times, on some of the dates 0..MaxRotationDay, every      *)
(* store write succeeding.                                                 *)

InitRotation == Init /\ store = AbsentStore

StartupWritten == InitAppWith({TRUE})

RotationDayChange == DayChangeUpTo(MaxRotationDay)

NextRotation ==
    \/ StartupWritten
    \/ RotationDayChange

SpecRotation == InitRotation /\ [][NextRotation]_vars

---------------------------------------------------------------------------
(* Failing storage: every store write of a startup fails (quota, storage   *)
(* disabled), so every page session begins with writes that were lost; the *)
(* writes of saveReflection fail or succeed.                               *)

StartupUnwritten == InitAppWith({FALSE})

NextRecovery ==
    \/ StartupUnwritten
    \/ HandleReflectionInput
    \/ SaveReflection
    \/ DayChange

SpecRecovery == Init /\ [][NextRecovery]_vars

---------------------------------------------------------------------------
(* Claims *)

\* The longest streak loadState would return from the stored value.
PersistedLongest == LoadState(store).value.streak.longest

\* C1: across startups, saveTodayReflection calls and day changes on the
\* same stored state (no import, no clear), the stored streak.longest never
\* decreases from one operation to the next.
C1_LongestNeverDecreases ==
    [][(page # "reloading" /\ page' # "reloading")
          => PersistedLongest' >= PersistedLongest]_vars

\* The state without the records whose text is empty after trimming.
OnlyWritten(state) ==
    [state EXCEPT !.reflections =
        [d \in {x \in DOMAIN state.reflections :
                    Trim(state.reflections[x].text) # <<>>}
            |-> state.reflections[d]]]

\* C2: a record whose text is empty after trimming is not a qualifying
\* date: it contributes nothing to what calculateStreak returns, and saving
\* such a text for today leaves the streak snapshot as it was.
C2_BlankTextNeverQualifies ==
    [][/\ CalculateStreak(appState', today')
            = CalculateStreak(OnlyWritten(appState'), today')
       /\ (last'.op = "saveReflection" /\ Trim(last'.text) = <<>>)
            => appState'.streak = appState.streak]_vars

\* C3: for every non-empty set of qualifying dates, every today and every
\* previous longest, calculateStreak returns longest >= current.
C3_LongestAtLeastCurrent ==
    (last.op = "calculateStreak" /\ QualifyingDates(appState) # {})
        => last.streak.longest >= last.streak.current

\* calculateStreak has returned a run of three days ending today, with no
\* previous longest to lean on.
C3_Witness ==
    /\ last.op = "calculateStreak"
    /\ appState.streak.longest = 0
    /\ last.streak.current = 3
    /\ last.streak.longest = 3

\* C4 (as claimed): the cursor changes only inside updateQuestionIfNeeded
\* (to getNextQuestionId of its value, stamping lastQuestionDate = today),
\* and at most once for any one calendar date, whatever the operations
\* (startup, saveTodayReflection, import, clear, day changes).
C4_CursorOnlyByRotator ==
    [][Cursor' # Cursor
          => /\ last'.op = "initApp"
             /\ Cursor' = GetNextQuestionId(Cursor)
             /\ appState'.lastQuestionDate = today
             /\ cursorChangedOn # today]_vars

\* C4 (amended): the cursor changes only in a startup; unless the stored
\* value that startup loads was last written by importData or clearAllData,
\* the change is the Rotator's and is the first change of the cursor on
\* that date.
C4_CursorOnlyByRotatorOrReplacement ==
    [][Cursor' # Cursor
          => /\ last'.op = "initApp"
             /\ today' = today
             /\ ~storeReplaced
                  => /\ Cursor' = GetNextQuestionId(Cursor)
                     /\ appState'.lastQuestionDate = today
                     /\ cursorChangedOn # today]_vars

\* A startup on the second day, on a date on which the cursor had already
\* been rotated, has left the cursor alone.
C4_Witness ==
    /\ last.op = "initApp"
    /\ ~last.isNewDay
    /\ today = 1
    /\ cursorChangedOn = today
    /\ appState.lastQuestionDate = today
    /\ appState.currentQuestionId = 3

\* The states updateQuestionIfNeeded is handed: the one loadState returns
\* and the one in memory.
RotatorInputs == {LoadState(store).value, appState}

\* C5 (as claimed): for currentQuestionId >= 1 and lastQuestionDate # today
\* updateQuestionIfNeeded returns the state with currentQuestionId
\* (currentQuestionId % 13) + 1 and lastQuestionDate = today, every other
\* field unchanged.
C5_RotatesModulo ==
    \A s \in RotatorInputs :
        (s.currentQuestionId >= 1 /\ s.lastQuestionDate # today)
            => UpdateQuestionIfNeeded(s, today).state
                 = [s EXCEPT
                      !.currentQuestionId =
                          (s.currentQuestionId % TotalQuestions) + 1,
                      !.lastQuestionDate = today]

\* C5 (amended): the same for currentQuestionId in 1..13; for every
\* currentQuestionId above 13 the new currentQuestionId is 1.
C5_RotatesModuloInRange ==
    \A s \in RotatorInputs :
        (s.currentQuestionId >= 1 /\ s.lastQuestionDate # today)
            => UpdateQuestionIfNeeded(s, today).state
                 = [s EXCEPT
                      !.currentQuestionId =
                          IF s.currentQuestionId <= TotalQuestions
                          THEN (s.currentQuestionId % TotalQuestions) + 1
                          ELSE 1,
                      !.lastQuestionDate = today]

\* A startup on day 1 has rotated the cursor of the imported document from
\* the last prompt, 13, to 1.
C5_Witness ==
    /\ last.op = "initApp"
    /\ last.isNewDay
    /\ today = 1
    /\ appState.reflections = DocExported.reflections
    /\ appState.currentQuestionId = 1
    /\ appState.lastQuestionDate = today

\* C6: updateQuestionIfNeeded is idempotent within one calendar day: a
\* second call on the result of the first returns it unchanged and calls
\* saveState no more; in a startup the Rotator writes exactly when the
\* loaded state was not yet stamped with today.
C6_RotationIdempotent ==
    /\ \A s \in RotatorInputs :
          LET first == UpdateQuestionIfNeeded(s, today)
              second == UpdateQuestionIfNeeded(first.state, today)
          IN  second.state = first.state /\ ~second.saved
    /\ last.op = "initApp"
          => /\ ~UpdateQuestionIfNeeded(appState, today).saved
             /\ Len(last.saves) = (IF last.isNewDay THEN 2 ELSE 1)

\* A second startup on a date on which the first one rotated: the Rotator
\* made no write (the only saveState is initApp's own).
C6_Witness ==
    /\ last.op = "initApp"
    /\ ~last.isNewDay
    /\ Len(last.saves) = 1
    /\ cursorChangedOn = today
    /\ store = JSONStringify(appState)

\* C7: whenever the app is started, currentQuestionId is in 1..13 and
\* getQuestionById(currentQuestionId) finds a prompt, also after a
\* successful importData followed by startup.
C7_CursorNamesPrompt ==
    page = "ready" => GetQuestionById(appState.currentQuestionId) # <<>>

\* What loadState cannot use: nothing stored, text that does not parse, or a
\* value without reflections or without streak.
Unusable(saved) ==
    \/ saved.kind \in {"absent", "notjson", "null"}
    \/ saved.doc.reflectionsKey # "object"
    \/ saved.doc.streakKey # "object"

\* C8: loadState never raises; on an absent, unparsable or structurally
\* invalid stored value it returns the default state; it leaves the stored
\* value unchanged.
C8_LoadStateTotal ==
    LET r == LoadState(store) IN
    /\ ~r.threw
    /\ r.store = store
    /\ Unusable(store) => r.value = DEFAULT_STATE
    /\ ~Unusable(store) => r.value = store.doc

\* A startup has run on the stored text "not json" (its writes failed, the
\* text is still there) and works on the rotated default state.
C8_Witness ==
    /\ last.op = "initApp"
    /\ store = NotJsonText
    /\ appState = [DEFAULT_STATE EXCEPT !.currentQuestionId = 2,
                                        !.lastQuestionDate = today]

\* C9: saveState returns true exactly when the serialized state has been
\* written, returns false without raising when the write fails, and a
\* failed write leaves the stored value unchanged -- for the call made by
\* saveReflection and for the calls made by initApp.
C9_SaveStateResult ==
    [][/\ \A ok \in BOOLEAN :
            LET r == SaveState(store, appState, ok) IN
            /\ ~r.threw
            /\ r.ret = ok
            /\ r.store = (IF ok THEN JSONStringify(appState) ELSE store)
       /\ last'.op = "saveReflection"
            => store' = (IF last'.saves[1] THEN JSONStringify(appState')
                                           ELSE store)
       /\ last'.op = "initApp"
            => store' =
                 (IF last'.saves[Len(last'.saves)]
                  THEN JSONStringify(appState')
                  ELSE IF last'.saves[1]
                  THEN JSONStringify(
                          UpdateQuestionIfNeeded(LoadState(store).value,
                                                 today).state)
                  ELSE store)]_vars

\* saveReflection's write has failed on a day on which earlier writes had
\* succeeded: the stored state is the older one.
C9_Witness ==
    /\ last.op = "saveReflection"
    /\ last.saves = <<FALSE>>
    /\ ~Unusable(store)
    /\ store # JSONStringify(appState)

\* The texts importData rejects.
Rejected(jsonString) ==
    \/ JSONParse(jsonString).threw
    \/ JSONParse(jsonString).isNull
    \/ jsonString.doc.reflectionsKey # "object"
    \/ jsonString.doc.streakKey # "object"

\* C10: given text that is not valid JSON, or a document lacking
\* reflections or streak, importData returns false and the stored value is
\* what it was before the call.
C10_RejectedImportKeepsStore ==
    [][(last'.op = "importData" /\ Rejected(last'.input))
          => (~last'.ret /\ store' = store /\ page' = page)]_vars

\* importData has rejected a document without the streak key while a
\* state with a reflection was stored.
C10_Witness ==
    /\ last.op = "importData"
    /\ last.input = JSONStringify(DocNoStreak)
    /\ ~last.ret
    /\ ~Unusable(store)
    /\ QualifyingDates(store.doc) # {}

\* The text is a JSON object with a reflections key and a streak key.
HasBothKeys(jsonString) ==
    /\ ~JSONParse(jsonString).threw
    /\ ~JSONParse(jsonString).isNull
    /\ jsonString.doc.reflectionsKey # "missing"
    /\ jsonString.doc.streakKey # "missing"

\* The text is a JSON object whose reflections and streak are objects.
HasBothObjects(jsonString) ==
    /\ ~JSONParse(jsonString).threw
    /\ ~JSONParse(jsonString).isNull
    /\ jsonString.doc.reflectionsKey = "object"
    /\ jsonString.doc.streakKey = "object"

\* C11 (as claimed): importData returns true for every JSON object that
\* contains both a reflections key and a streak key, whatever the values
\* under those keys (including null, 0, false or an empty string).
C11_AcceptsEveryDocWithBothKeys ==
    (last.op = "importData" /\ HasBothKeys(last.input)) => last.ret

\* C11 (amended): importData returns true for every JSON object whose
\* reflections and streak keys both hold an object, whatever is in those
\* objects; when one of the keys holds null, 0, false or an empty string it
\* returns false, as for a missing key.
C11_AcceptsDocsWithBothObjects ==
    last.op = "importData" => (last.ret <=> HasBothObjects(last.input))

\* importData has accepted a document whose only record has no text.
C11_Witness ==
    /\ last.op = "importData"
    /\ last.input = JSONStringify(DocNoText)
    /\ last.ret

\* C12: whenever importData returns true, the stored state is the imported
\* document in full; in particular importData does not return true when
\* the write to the store failed.
C12_AcceptedImportIsPersisted ==
    (last.op = "importData" /\ last.ret)
        => /\ last.saves = <<TRUE>>
           /\ LoadState(store).value = last.input.doc

\* C13: for every stored value (also absent or corrupted),
\* importData(exportData()) returns true, and loadState after it returns
\* the same reflections and the same streak as loadState before it.
C13_ExportImportRoundTrip ==
    [][last'.op = "exportImport"
          => /\ last'.ret
             /\ LoadState(store').value.reflections
                  = LoadState(store).value.reflections
             /\ LoadState(store').value.streak
                  = LoadState(store).value.streak]_vars

\* The round trip has been made on a stored state with a reflection, and
\* its write went through: the stored text is now importData's.
C13_Witness ==
    /\ last.op = "exportImport"
    /\ last.saves = <<TRUE>>
    /\ last.input = JSONStringifyPretty(DocExported)
    /\ store = JSONStringify(DocExported)

\* C14: after handleImportData's importData has succeeded and written the
\* document, a debounced saveReflection that was pending persists the
\* imported state plus today's edit, never the reflections, streak or
\* cursor the page had in memory before the import.
C14_SaveAfterImportKeepsImport ==
    [][(/\ last.op = "importData"
        /\ last.saves = <<TRUE>>
        /\ last'.op = "saveReflection"
        /\ last'.saves = <<TRUE>>)
          => store' = JSONStringify(
                 SaveTodayReflection(last.input.doc, last'.text, today))]_vars

\* What a startup makes of the default state on the date now.
StartupOfDefault(now) ==
    [DEFAULT_STATE EXCEPT !.currentQuestionId = 2, !.lastQuestionDate = now]

\* C15: after clearAllData returns true, the next loadState returns the
\* default state (cursor 1, no date, no reflections, zero streak), whatever
\* ran before the clear; the startup that follows works on it.
C15_ClearResetsToDefault ==
    [][/\ (last'.op = "clearAllData" /\ last'.ret)
            => LoadState(store').value = DEFAULT_STATE
       /\ (last.op = "clearAllData" /\ last.ret /\ last'.op = "initApp")
            => appState' = StartupOfDefault(today)]_vars

\* clearAllData has returned true on a stored state that had a reflection
\* and a streak, while the page still holds that state in memory.
C15_Witness ==
    /\ last.op = "clearAllData"
    /\ last.ret
    /\ store = AbsentStore
    /\ QualifyingDates(appState) # {}
    /\ appState.streak.longest > 0

\* C16: saveTodayReflection(state, text) returns a state whose reflections
\* have one record for today, with questionId = state.currentQuestionId and
\* the given text, and in which the records of every other date,
\* currentQuestionId and lastQuestionDate are those of the input state.
C16_SaveTodayReflectionFrame ==
    [][last'.op = "saveReflection"
          => /\ DOMAIN appState'.reflections
                  = DOMAIN appState.reflections \cup {today}
             /\ appState'.reflections[today]
                  = Record(appState.currentQuestionId, last'.text)
             /\ \A d \in DOMAIN appState.reflections \ {today} :
                    appState'.reflections[d] = appState.reflections[d]
             /\ appState'.currentQuestionId = appState.currentQuestionId
             /\ appState'.lastQuestionDate = appState.lastQuestionDate]_vars

\* A save has written today's record under the current prompt, next to the
\* record of another date, which is of a prompt that no longer exists.
C16_Witness ==
    /\ last.op = "saveReflection"
    /\ today = 1
    /\ DOMAIN appState.reflections = {0, 1}
    /\ appState.reflections[0] = Record(TotalQuestions + 1, <<"a">>)
    /\ appState.reflections[1] = Record(2, <<" ">>)
    /\ store = JSONStringify(appState)

\* C17: saveTodayReflection replaces the streak snapshot with
\* calculateStreak of the new state if and only if today's record had no
\* non-empty text before the call and the saved text is non-empty; in every
\* other case the returned snapshot is the input's.
C17_StreakRecomputedOnFirstText ==
    [][last'.op = "saveReflection"
          => LET hadText ==
                     /\ today \in DOMAIN appState.reflections
                     /\ appState.reflections[today].text # <<>>
                 newState ==
                     [appState' EXCEPT !.streak = appState.streak]
             IN  appState'.streak =
                     IF ~hadText /\ last'.text # <<>>
                     THEN CalculateStreak(newState, today)
                     ELSE appState.streak]_vars

\* An edit of today's record has kept a snapshot that calculateStreak would
\* no longer return.
C17_Witness ==
    /\ last.op = "saveReflection"
    /\ last.text = <<"a">>
    /\ appState.streak = [current |-> 1, longest |-> 3,
                          lastReflectionDate |-> 0]
    /\ CalculateStreak(appState, today) # appState.streak

\* C18: at any moment at most one auto-save timer is pending; every input
\* event cancels the pending timer and arms a new one, so the text that
\* reaches saveTodayReflection is the text of the latest input event, and
\* the texts of superseded input events are never saved.
C18_DebouncedWrite ==
    [][/\ Len(timers') <= 1
       /\ last'.op = "handleReflectionInput" => timers' = <<last'.text>>
       /\ last'.op = "saveReflection"
            => /\ autoSaveTimer.armed
               /\ autoSaveTimer.text = last'.text
               /\ timers' = <<>>]_vars

\* An input event has come while the timer of an earlier one was pending:
\* its own timer is the only one pending, and nothing has been saved.
C18_Witness ==
    /\ last.op = "handleReflectionInput"
    /\ ~last.ret
    /\ last.text = <<"a">>
    /\ timers = <<<<"a">>>>
    /\ autoSaveTimer = [armed |-> TRUE, text |-> <<"a">>]
    /\ appState.reflections = EmptyMap

\* C19: for every stored value loadState accepts and every document
\* importData accepts, the startup that follows (loadState,
\* updateQuestionIfNeeded, calculateStreak, saveState) completes without
\* raising an exception.
C19_StartupNeverRaises ==
    /\ last.op = "initApp" => last.ret
    /\ page # "crashed"

\* C20: getAllReflections returns exactly the records whose text is
\* non-empty after trimming, one entry per such date, ordered by date
\* strictly descending; a record whose questionId matches no prompt still
\* appears, with the placeholder label 'Question not found'.
C20_HistoryListsWrittenRecords ==
    last.op = "handleHistoryToggle"
        => LET shown == panel.reflections
               written == {d \in DOMAIN appState.reflections :
                              Trim(appState.reflections[d].text) # <<>>}
           IN  /\ Len(shown) = Cardinality(written)
               /\ {shown[i].date : i \in 1..Len(shown)} = written
               /\ \A i \in 1..(Len(shown) - 1) :
                      shown[i].date > shown[i + 1].date
               /\ \A i \in 1..Len(shown) :
                      LET r == appState.reflections[shown[i].date] IN
                      /\ shown[i].reflectionText = r.text
                      /\ shown[i].questionText =
                             IF r.questionId \in QuestionIds
                             THEN [label |-> "prompt", id |-> r.questionId]
                             ELSE [label |-> "Question not found", id |-> 0]

\* The history of three records: today's under its prompt, then the oldest
\* under the placeholder; the blank one between them is left out.
C20_Witness ==
    /\ last.op = "handleHistoryToggle"
    /\ today = 2
    /\ DOMAIN appState.reflections = {0, 1, 2}
    /\ appState.reflections[1].text = <<" ">>
    /\ Len(panel.reflections) = 2
    /\ panel.reflections[1] =
           [date |-> 2, questionText |-> [label |-> "prompt", id |-> 2],
            reflectionText |-> <<"a">>]
    /\ panel.reflections[2] =
           [date |-> 0,
            questionText |-> [label |-> "Question not found", id |-> 0],
            reflectionText |-> <<"a">>]

\* C21: calculateStats and getStreakStats are computed over the same
\* records: the totalDays the page displays equals the totalReflections
\* it displays.
C21_StatsOverSameRecords ==
    stats.streakStats.totalDays = stats.stats.totalReflections

\* The number of maximal runs of non-whitespace characters of a text: the
\* positions where such a run starts.
WordRuns(text) ==
    Cardinality({i \in 1..Len(text) :
                    /\ ~IsSpace(text[i])
                    /\ (i = 1 \/ IsSpace(text[i - 1]))})

\* C22: for every text, countWords(text) is the number of maximal runs of
\* non-whitespace characters; so it is 0 for the empty or whitespace-only
\* text, 1 for a single token, and independent of the amount of leading,
\* trailing or separating whitespace.
C22_CountWordsCountsRuns ==
    last.op = "handleReflectionInput"
        => /\ stats.stats.currentWords = CountWords(last.text)
           /\ CountWords(last.text) = WordRuns(last.text)
           /\ CountWords(last.text) = CountWords(Trim(last.text))
           /\ (Trim(last.text) = <<>>) => CountWords(last.text) = 0

\* The page shows 2 for two letters that only a line break separates.
C22_Witness ==
    /\ last.op = "handleReflectionInput"
    /\ last.text = <<" ", "a", "\n", "a">>
    /\ stats.stats.currentWords = 2

\* C23: the theme applied at startup follows the chain saved choice, then
\* system preference, then light: with no saved theme and a system that
\* prefers dark, initTheme applies dark; with a saved theme, that theme.
C23_ThemeFallbackChain ==
    last.op = "initApp"
        => theme.applied =
               IF theme.saved # "absent" THEN theme.saved ELSE theme.system


\* The dates the streak is about: those whose record has text.
StreakDates == {d \in DOMAIN appState.reflections :
                   appState.reflections[d].text # <<>>}

\* C24: calculateStreak returns current > 0 only if the most recent
\* qualifying date is today or yesterday; for any other most recent date
\* (two or more days back, or later than today) current is 0.
C24_CurrentOnlyIfTodayOrYesterday ==
    (last.op = "calculateStreak" /\ last.streak.current > 0)
        => /\ StreakDates # {}
           /\ SetMax(StreakDates) \in {today, today - 1}

\* The length of the maximal run of consecutive days of S that ends at d.
RunEndingAt(S, d) ==
    CHOOSE n \in 1..Cardinality(S) :
        /\ \A k \in 0..(n - 1) : d - k \in S
        /\ d - n \notin S

\* C25: when the current streak is active (the most recent qualifying date
\* is today or yesterday), current is the length of the maximal run of
\* consecutive days ending at the most recent qualifying date.
C25_CurrentIsRunEndingAtLatest ==
    (/\ last.op = "calculateStreak"
     /\ StreakDates # {}
     /\ SetMax(StreakDates) \in {today, today - 1})
        => last.streak.current
               = RunEndingAt(StreakDates, SetMax(StreakDates))

\* calculateStreak has counted a run of two days ending today that stops
\* at a gap with older dates behind it.
C25_Witness ==
    /\ last.op = "calculateStreak"
    /\ StreakDates = {0, 1, 3, 4}
    /\ today = 4
    /\ last.streak.current = 2

\* The length of the longest run of consecutive days anywhere in S.
LongestRun(S) == SetMax({RunEndingAt(S, d) : d \in S})

\* C26: for a non-empty set of qualifying dates, longest is the maximum of
\* the longest run of consecutive days anywhere in the set and the previous
\* streak.longest, and lastReflectionDate is the most recent qualifying
\* date.
C26_LongestIsMaxOfRunAndPrevious ==
    (last.op = "calculateStreak" /\ StreakDates # {})
        => /\ last.streak.longest
                  = Max(LongestRun(StreakDates), appState.streak.longest)
           /\ last.streak.lastReflectionDate = SetMax(StreakDates)

\* calculateStreak has found the longest run behind a gap, not in the most
\* recent run, and it exceeds the previous longest.
C26_Witness ==
    /\ last.op = "calculateStreak"
    /\ StreakDates = {0, 1, 2, 4}
    /\ appState.streak.longest = 2
    /\ last.streak.longest = 3
    /\ last.streak.current = 1
    /\ last.streak.lastReflectionDate = 4


\* C27 (as claimed): after every completed startup, and after every
\* saveReflection whose store write succeeded, the persisted text is that
\* of the in-memory appState, whatever startups, edits, imports and clears
\* came before.
C27_StoreEqualsAppState ==
    (\/ (last.op = "initApp" /\ last.ret)
     \/ (last.op = "saveReflection" /\ last.saves = <<TRUE>>))
        => store = JSONStringify(appState)

\* C27 (amended): after every completed startup whose last store write
\* succeeded, and after every saveReflection whose store write succeeded,
\* the persisted text is that of the in-memory appState, whatever startups,
\* edits, imports and clears came before.
C27_StoreEqualsAppStateAfterWrite ==
    (\/ (last.op = "initApp" /\ last.ret
             /\ last.saves[Len(last.saves)] = TRUE)
     \/ (last.op = "saveReflection" /\ last.saves = <<TRUE>>))
        => store = JSONStringify(appState)

\* A saveReflection of written text has succeeded after an accepted import
\* or a clear replaced the store under the running page.
C27_Witness ==
    /\ last.op = "saveReflection"
    /\ last.saves = <<TRUE>>
    /\ last.text = <<"a">>
    /\ page = "reloading"
    /\ store = JSONStringify(appState)


\* C28: after a confirmed handleClearData whose clearAllData succeeded, no
\* saveReflection (from a timer that was pending at the clear) writes
\* reflections from before the clear back: what it persists holds no record
\* of another date than the one it saves under.
C28_ClearedReflectionsNeverReappear ==
    [][(/\ last.op = "clearAllData"
        /\ last.ret
        /\ last'.op = "saveReflection"
        /\ last'.saves = <<TRUE>>)
          => DOMAIN store'.doc.reflections \subseteq {today'}]_vars


\* The cached snapshot says what calculateStreak says of the state it is
\* stored with, on the date now.
SnapshotAgrees ==
    LET c == CalculateStreak(appState, today) IN
    /\ appState.streak.current = c.current
    /\ appState.streak.lastReflectionDate = c.lastReflectionDate

\* C29 (as claimed): after every completed startup and every
\* saveTodayReflection, streak.current and streak.lastReflectionDate are
\* what calculateStreak returns for the resulting state on the same day,
\* also after today's non-empty text has been replaced by empty text.
C29_SnapshotAgreesAfterEveryOperation ==
    (\/ (last.op = "initApp" /\ last.ret)
     \/ last.op = "saveReflection")
        => SnapshotAgrees

\* C29 (amended): after every completed startup and every
\* saveTodayReflection that stores the first non-empty text of the day
\* (today had no non-empty text before), streak.current and
\* streak.lastReflectionDate are what calculateStreak returns for the
\* resulting state on the same day.
C29_SnapshotAgreesAfterRecompute ==
    [][(\/ (last'.op = "initApp" /\ last'.ret)
        \/ (/\ last'.op = "saveReflection"
            /\ Len(last'.text) > 0
            /\ ~(/\ today \in DOMAIN appState.reflections
                 /\ Len(appState.reflections[today].text) > 0)))
          => SnapshotAgrees']_vars

\* saveTodayReflection has stored non-empty text on the day after another
\* written day and the snapshot counts both.
C29_Witness ==
    /\ last.op = "saveReflection"
    /\ Len(last.text) > 0
    /\ appState.streak.current = 2
    /\ appState.streak.lastReflectionDate = today
    /\ SnapshotAgrees


\* C30: whenever saveTodayReflection writes a record under a date, the
\* state's lastQuestionDate is that date (the record's questionId is the
\* prompt rotated in for it), also when the page has stayed open across a
\* change of day.
C30_RecordUnderRotatedDate ==
    last.op = "saveReflection"
        => /\ today \in DOMAIN appState.reflections
           /\ appState.lastQuestionDate = today


\* C31: from an empty store, with every write succeeding and no import or
\* clear, after startups on n distinct dates the cursor is
\* (n % 13) + 1, i.e. 2, 3, ..., 13, 1, 2, ...; a further startup on the
\* date of the latest one (which leaves n as it is) leaves the cursor as it
\* is.
C31_CursorAfterNthStartup ==
    page = "ready"
        => appState.currentQuestionId
               = (Cardinality(startupDates) % TotalQuestions) + 1

\* The thirteenth startup, on a date reached by skipping days, has wrapped
\* the cursor round to the first prompt.
C31_Witness ==
    /\ last.op = "initApp"
    /\ last.isNewDay
    /\ Cardinality(startupDates) = TotalQuestions
    /\ today = MaxRotationDay
    /\ appState.currentQuestionId = 1
    /\ store = JSONStringify(appState)


\* C32: a failed store write is recovered by the next successful one: when
\* saveState calls of the startup or of saveTodayReflection have failed and
\* a later saveTodayReflection's write succeeds in the same page session,
\* the persisted state is the whole in-memory state, with the rotation,
\* streak and reflections whose own writes had failed.
C32_SuccessfulWriteRecovers ==
    (last.op = "saveReflection" /\ last.saves = <<TRUE>>)
        => /\ store.kind = "json"
           /\ LoadState(store).value = appState

\* After a startup whose writes all failed and a day's change, a
\* saveReflection has succeeded: the store holds the rotation of that
\* startup, the records of both days and the streak over them.
C32_Witness ==
    /\ last.op = "saveReflection"
    /\ last.saves = <<TRUE>>
    /\ startupDates = {0}
    /\ today = 1
    /\ LoadState(store).value = appState
    /\ LoadState(store).value.currentQuestionId = 2
    /\ LoadState(store).value.lastQuestionDate = 0
    /\ DOMAIN LoadState(store).value.reflections = {0, 1}
    /\ LoadState(store).value.streak.current = 2

=============================================================================
